---- MODULE Spec2Model ----
(***************************************************************************)
(* Model of the CaboCha pattern matcher (cabocha_matcher.py) and of the    *)
(* Token / Chunk / Sentence value objects it reads (cabocha_parser.py).    *)
(*                                                                         *)
(* Strings are sequences of symbols: <<>> is the empty string '', the      *)
(* symbol "*" is the character '*', and every other symbol stands for a    *)
(* run of ordinary characters (a Japanese word written in romaji, e.g.     *)
(* <<"meishi", "*">> is the text '名詞*').  Python lists are sequences     *)
(* indexed from 1, so the code's toks[si] is toks[si + 1] here.            *)
(***************************************************************************)
EXTENDS Integers, Sequences, FiniteSets

VARIABLES
    pc,        \* "start" before the call under study, "done" after it
    tokA,      \* Token: left operand of Token.__eq__ (the pattern token)
    tokB,      \* Token: right operand of Token.__eq__ (the sentence token)
    eqres,     \* result of tokB == tokA
    scnk,      \* Chunk: sentence chunk handed to _match_chunk
    pcnk,      \* Chunk: pattern chunk handed to _match_chunk
    mres,      \* result of _match_chunk(scnk, pcnk)
    sentence,  \* Sentence handed to match_tok / match
    pattern,   \* Sentence (the pattern) handed to match_tok / match
    toks_res,  \* result of match_tok(sentence, pattern)
    combos,    \* the combinations of sentence edges match_tok accepted
    list_res   \* result of match(sentence, pattern)

vars == <<pc, tokA, tokB, eqres, scnk, pcnk, mres,
          sentence, pattern, toks_res, combos, list_res>>

(***************************************************************************)
(* Python values                                                           *)
(***************************************************************************)
\* Python's None where a string is expected (a feature slot): a sequence no
\* input string is equal to.
None == <<"<None>">>

\* The '*' character.
Star == "*"

\* An Optional result: Python's None, or a value.
Absent == [present |-> FALSE, val |-> <<>>]
Some(v) == [present |-> TRUE, val |-> v]

\* A dict is a function on its finite key set; {} is the empty function.
EmptyDict == <<>>

Min2(a, b) == IF a <= b THEN a ELSE b

(***************************************************************************)
(* cabocha_parser.py: Token                                                *)
(***************************************************************************)
\* Number of feature slots of a token.
NFEATURE == 9

\* chunk link of the root chunk
ROOT == -1

empty_to_None(x) == IF x = <<Star>> THEN None ELSE x

\* while len(feature) < 9: feature.append('*')
RECURSIVE Backfill(_)
Backfill(feature) ==
    IF Len(feature) < NFEATURE
    THEN Backfill(Append(feature, <<Star>>))
    ELSE feature

\* Token.__init__ after tok.split('\t') and feature.split(','):
\* tok = [surface |-> string, feature |-> sequence of strings].
\* Defined for len(feature) <= 9 and a part-of-speech that is neither '' nor
\* '*' (the constructor raises otherwise).
Token(tok, tid) ==
    LET filled == Backfill(tok.feature)
        feat   == [i \in 1..NFEATURE |-> empty_to_None(filled[i])]
        pos0   == feat[1]
        slot   == pos0[Len(pos0)] = Star
    IN  [tid     |-> tid,
         surface |-> tok.surface,
         feature |-> IF slot
                     THEN [feat EXCEPT ![1] = SubSeq(pos0, 1, Len(pos0) - 1)]
                     ELSE feat,
         is_wild |-> tok.surface = <<>>,
         is_slot |-> slot]

pos(t) == t.feature[1]

detailed_pos(t) == SubSeq(t.feature, 2, 4)

dictform(t) ==
    IF t.feature[7] # None /\ t.feature[7] # <<>>
    THEN t.feature[7]
    ELSE t.surface

\* Token.__eq__ comparing the dictionary forms of wildcard tokens too.
TokenEq_always_dictform(self, other) ==
    /\ dictform(self) = dictform(other)
    /\ pos(self) = pos(other)
    /\ \A i \in 1..3 :
          \/ detailed_pos(self)[i] = None
          \/ detailed_pos(other)[i] = None
          \/ detailed_pos(self)[i] = detailed_pos(other)[i]

\* Token.__eq__(self, other)
TokenEq(self, other) ==
    LET same_dictform == dictform(self) = dictform(other)
        same_pos      == pos(self) = pos(other)
    IN  IF ~self.is_wild /\ ~other.is_wild /\ ~same_dictform THEN FALSE
        ELSE IF ~same_pos THEN FALSE
        ELSE \A i \in 1..3 :
                \/ detailed_pos(self)[i] = None
                \/ detailed_pos(other)[i] = None
                \/ detailed_pos(self)[i] = detailed_pos(other)[i]

(***************************************************************************)
(* cabocha_parser.py: Chunk and Sentence                                   *)
(***************************************************************************)
\* Chunk.__init__ after hdr.split(' '): hdr = <<'*', cid, link, ...>> with 3
\* or 5 fields, the link field being <<n, suffix>> for the text 'nD'; link[:-1]
\* drops the suffix.  head, func and score are not read by the matcher and
\* are left out.  toks are the chunk's token lines, tids their token ids.
Chunk(hdr, toks, tids) ==
    [cid  |-> hdr[2],
     link |-> hdr[3][1],
     toks |-> [i \in 1..Min2(Len(toks), Len(tids)) |-> Token(toks[i], tids[i])]]

\* Number of token lines of the chunk groups before group i.
RECURSIVE TidBase(_, _)
TidBase(groups, i) ==
    IF i <= 1 THEN 0
    ELSE TidBase(groups, i - 1) + Len(groups[i - 1].toks)

\* Sentence.__init__ on text: groups[i] = [hdr, toks] is the i-th header line
\* with the token lines that follow it; tid counts the token lines from 0.
Sentence(groups) ==
    [cnks |-> [i \in 1..Len(groups) |->
                 Chunk(groups[i].hdr, groups[i].toks,
                       [j \in 1..Len(groups[i].toks) |->
                          TidBase(groups, i) + j - 1])]]

\* Sentence.get_cnk: the first chunk with that cid (None if there is none).
get_cnk(sen, cid) ==
    LET hits == {i \in 1..Len(sen.cnks) : sen.cnks[i].cid = cid}
    IN  IF hits = {} THEN Absent
        ELSE Some(sen.cnks[CHOOSE i \in hits : \A j \in hits : i <= j])

(***************************************************************************)
(* cabocha_matcher.py: _match_chunk                                        *)
(***************************************************************************)
INITIAL == 0
RECORDING == 1
NORMAL == 2

\* record with the token added behind the list: res.setdefault(...) + [stok]
record_append(res, ptok, stok) ==
    [k \in DOMAIN res \cup {ptok.tid} |->
        IF k = ptok.tid
        THEN (IF k \in DOMAIN res THEN res[k] ELSE <<>>) \o <<stok>>
        ELSE res[k]]

\* res[ptok.tid] = [stok] + res.setdefault(ptok.tid, [])
record(res, ptok, stok) ==
    [k \in DOMAIN res \cup {ptok.tid} |->
        IF k = ptok.tid
        THEN <<stok>> \o (IF k \in DOMAIN res THEN res[k] ELSE <<>>)
        ELSE res[k]]

\* termination accepting an exhausted pattern only at the end of the chunk.
termination_whole_chunk(si, pi, mode, SLENGTH, PLENGTH) ==
    IF pi >= PLENGTH
    THEN (IF mode = NORMAL \/ si < SLENGTH THEN "None" ELSE "dict")
    ELSE IF si >= SLENGTH THEN "None"
    ELSE "go"

\* The two exits at the head of match_token: "dict" is return {}, "None" is
\* return None, "go" falls through to the comparison of the two tokens.
termination(si, pi, mode, SLENGTH, PLENGTH) ==
    IF pi >= PLENGTH
    THEN (IF mode = NORMAL THEN "None" ELSE "dict")
    ELSE IF si >= SLENGTH THEN "None"
    ELSE "go"

\* slot_capture trying the one-token capture before the longer one.
slot_capture_short_first(keep_pi, both, ptok, stok) ==
    IF both.present THEN Some(record(both.val, ptok, stok))
    ELSE IF keep_pi.present THEN Some(record(keep_pi.val, ptok, stok))
    ELSE Absent

\* Slot token equal to the sentence token: keep_pi is the result of advancing
\* the sentence index only, both of advancing both indices.
slot_capture(keep_pi, both, ptok, stok) ==
    IF keep_pi.present THEN Some(record(keep_pi.val, ptok, stok))
    ELSE IF both.present THEN Some(record(both.val, ptok, stok))
    ELSE Absent

\* Slot token not equal to the sentence token: the mode to go on in with the
\* pattern index advanced, or "fail".
slot_skip(mode) ==
    IF mode = INITIAL THEN "fail"
    ELSE IF mode = RECORDING THEN "NORMAL"
    ELSE "fail"

RECURSIVE match_token(_, _, _, _, _)
match_token(s, p, si, pi, mode) ==
    LET t == termination(si, pi, mode, Len(s.toks), Len(p.toks))
    IN  IF t = "dict" THEN Some(EmptyDict)
        ELSE IF t = "None" THEN Absent
        ELSE
          LET stok == s.toks[si + 1]
              ptok == p.toks[pi + 1]
          IN  IF ptok.is_slot /\ TokenEq(stok, ptok)
              THEN slot_capture(match_token(s, p, si + 1, pi, RECORDING),
                                match_token(s, p, si + 1, pi + 1, RECORDING),
                                ptok, stok)
              ELSE IF ptok.is_slot
              THEN (IF slot_skip(mode) = "NORMAL"
                    THEN match_token(s, p, si, pi + 1, NORMAL)
                    ELSE Absent)
              ELSE IF TokenEq(stok, ptok)
              THEN match_token(s, p, si + 1, pi + 1, mode)
              ELSE Absent

match_chunk(s, p) == match_token(s, p, 0, 0, INITIAL)

(***************************************************************************)
(* cabocha_matcher.py: match_tok, _same_node, _tolist, match               *)
(***************************************************************************)
\* sorted() on a set of integers: its elements in ascending order.
RECURSIVE Ascending(_)
Ascending(S) ==
    IF S = {} THEN <<>>
    ELSE LET m == CHOOSE x \in S : \A y \in S : x <= y
         IN  <<m>> \o Ascending(S \ {m})

\* The set object of the interpreter, for chunk ids (integers >= 0, which
\* hash to themselves): an open-addressing table of mask + 1 slots, each
\* <<>> or <<key>>, iterated in slot order.
PySet_MINSIZE == 8
LINEAR_PROBES == 9
PERTURB_SHIFT == 5

\* The slot where a key with that hash goes: the first slot of the probe
\* sequence from i that is unused or holds the key.
RECURSIVE set_lookup(_, _, _, _, _)
set_lookup(table, mask, key, i, perturb) ==
    LET probes == IF i + LINEAR_PROBES <= mask THEN LINEAR_PROBES ELSE 0
        stop   == {j \in i..(i + probes) : table[j] = <<>> \/ table[j] = <<key>>}
        shift  == perturb \div (2 ^ PERTURB_SHIFT)
    IN  IF stop # {} THEN CHOOSE j \in stop : \A k \in stop : j <= k
        ELSE set_lookup(table, mask, key, (i * 5 + 1 + shift) % (mask + 1), shift)

\* The table with key put into its slot.
set_insert(so, key) ==
    LET j == set_lookup(so.table, so.mask, key, key % (so.mask + 1), key)
    IN  [table |-> [so.table EXCEPT ![j] = <<key>>], mask |-> so.mask]

\* The keys of a table in slot order: the order of iteration.
set_iter(so) ==
    LET used(e) == e # <<>>
        slots == SelectSeq([n \in 1..(so.mask + 1) |-> so.table[n - 1]], used)
    IN  [n \in 1..Len(slots) |-> slots[n][1]]

\* The smallest table size 8, 16, 32, ... above minused.
RECURSIVE set_newsize(_, _)
set_newsize(size, minused) ==
    IF size <= minused THEN set_newsize(size * 2, minused) ELSE size

\* The keys from the n-th on put into the table, one after the other.
RECURSIVE set_fill(_, _, _)
set_fill(so, keys, n) ==
    IF n > Len(keys) THEN so
    ELSE CHOOSE done \in {set_fill(next, keys, n + 1) :
                             next \in {set_insert(so, keys[n])}} : TRUE

\* A new table of at least minused slots with the keys of so moved over in
\* slot order.
set_table_resize(so, minused) ==
    LET size == set_newsize(PySet_MINSIZE, minused)
        keys == set_iter(so)
    IN  set_fill([table |-> [j \in 0..(size - 1) |-> <<>>], mask |-> size - 1],
                 keys, 1)

\* set.add: the key is put in, and the table grows to four times its number
\* of keys once three fifths of the slots are in use.
set_add(so, key) ==
    IF key \in {set_iter(so)[n] : n \in 1..Len(set_iter(so))} THEN so
    ELSE LET put  == set_insert(so, key)
             fill == Len(set_iter(put))
         IN  IF fill * 5 < put.mask * 3 THEN put
             ELSE set_table_resize(put, fill * 4)

\* The keys from the n-th on added to the set, one after the other.
RECURSIVE set_add_all(_, _, _)
set_add_all(so, keys, n) ==
    IF n > Len(keys) THEN so
    ELSE CHOOSE done \in {set_add_all(next, keys, n + 1) :
                             next \in {set_add(so, keys[n])}} : TRUE

\* list(set(keys)): the keys in the order in which the set iterates them.
set_order(keys) ==
    set_iter(set_add_all([table |-> [j \in 0..(PySet_MINSIZE - 1) |-> <<>>],
                          mask |-> PySet_MINSIZE - 1],
                         keys, 1))

\* dic.keys() of a dict filled in the order of the sentence's chunks: the
\* chunk ids of sen that are keys of dic, in that order.
keys_of(sen, dic) ==
    LET in_dic(c) == c.cid \in DOMAIN dic
        cs == SelectSeq(sen.cnks, in_dic)
    IN  [n \in 1..Len(cs) |-> cs[n].cid]

\* s1 + s2 + ... for a list of lists
RECURSIVE Flatten(_)
Flatten(ss) == IF ss = <<>> THEN <<>> ELSE Head(ss) \o Flatten(Tail(ss))

\* dict.update
update(d, e) ==
    [k \in DOMAIN d \cup DOMAIN e |-> IF k \in DOMAIN e THEN e[k] ELSE d[k]]

\* itertools.product(*lists): the last list varies fastest.
RECURSIVE product(_)
product(lists) ==
    IF lists = <<>> THEN << <<>> >>
    ELSE LET rest == product(Tail(lists))
             h    == Head(lists)
             m    == Len(rest)
         IN  [k \in 1..(Len(h) * m) |->
                <<h[((k - 1) \div m) + 1]>> \o rest[((k - 1) % m) + 1]]

\* The inner loop of the first stage: the sentence chunks that match p_cnk,
\* {s_cnk.cid: captures}.  Chunk ids are unique within a sentence.
chunk_matches(sen, p_cnk) ==
    LET hit == {i \in 1..Len(sen.cnks) : match_chunk(sen.cnks[i], p_cnk).present}
    IN  [c \in {sen.cnks[i].cid : i \in hit} |->
            match_chunk(get_cnk(sen, c).val, p_cnk).val]

\* matching_res once the first stage went through: {p_cnk.cid: {s_cid: ...}}
matching_res(sen, pat) ==
    [c \in {pat.cnks[i].cid : i \in 1..Len(pat.cnks)} |->
        chunk_matches(sen, get_cnk(pat, c).val)]

\* The first stage returns None: some pattern chunk matched no sentence chunk.
no_candidates(sen, pat) ==
    \E i \in 1..Len(pat.cnks) : chunk_matches(sen, pat.cnks[i]) = EmptyDict

\* The chunk ids reached from chunk cid by following links, cid excluded.
RECURSIVE above(_, _, _)
above(sen, cid, fuel) ==
    IF fuel = 0 \/ ~get_cnk(sen, cid).present THEN {}
    ELSE LET l == get_cnk(sen, cid).val.link
         IN  IF l = ROOT THEN {} ELSE {l} \cup above(sen, l, fuel - 1)

\* s_edges_of pairing s_cid with every chunk above it that matches p_link,
\* not only with the chunk it links to.
s_edges_of_any_ancestor(sen, mr, p_cid, p_link) ==
    Flatten([i \in 1..Len(set_order(keys_of(sen, mr[p_cid]))) |->
        LET s_cid == set_order(keys_of(sen, mr[p_cid]))[i]
            ts == Ascending(above(sen, s_cid, Len(sen.cnks)) \cap DOMAIN mr[p_link])
        IN  [j \in 1..Len(ts) |-> <<s_cid, ts[j]>>]])

\* s_edges of the pattern edge (p_cid, p_link): the edges (s_cid, s_link) of
\* the sentence with s_cid matching p_cid and s_link matching p_link, in the
\* order in which the set s_cids iterates.
s_edges_of(sen, mr, p_cid, p_link) ==
    LET s_cids_p_link == DOMAIN mr[p_link]
        s_cids        == set_order(keys_of(sen, mr[p_cid]))
        ok(s_cid)     == get_cnk(sen, s_cid).val.link \in s_cids_p_link
        hits          == SelectSeq(s_cids, ok)
    IN  [i \in 1..Len(hits) |-> <<hits[i], get_cnk(sen, hits[i]).val.link>>]

\* The second stage's loop over matching_res: one entry per pattern chunk
\* that is not the root, in the order of the pattern's chunks.
edge_entries(sen, pat, mr) ==
    LET notroot(c) == c.link # ROOT
        ps == SelectSeq(pat.cnks, notroot)
    IN  [i \in 1..Len(ps) |->
            [p_edge  |-> <<ps[i].cid, ps[i].link>>,
             s_edges |-> s_edges_of(sen, mr, ps[i].cid, ps[i].link)]]

\* no_edge without the early return: an edge without sentence edges goes on.
no_edge_ignored(entries) == FALSE

\* The second stage returns None: some pattern edge has no sentence edge.
no_edge(entries) == \E i \in 1..Len(entries) : entries[i].s_edges = <<>>

\* _same_node: for every ordered pair of edges, whether their starts are the
\* same chunk and whether their ends are the same chunk.
same_node(edges) ==
    LET n == Len(edges)
    IN  [k \in 1..(n * n) |->
            LET x0 == edges[((k - 1) \div n) + 1]
                x1 == edges[((k - 1) % n) + 1]
            IN  <<x0[1] = x1[1], x0[2] = x1[2]>>]

\* The combinations of sentence edges the third stage keeps.
accepted(p_edges, list_s_edges) ==
    LET p_taioh == same_node(p_edges)
        keep(s_edges) == same_node(s_edges) = p_taioh
    IN  SelectSeq(product(list_s_edges), keep)

\* toks of one kept combination: the captures of its chunks, merged in the
\* order of the flattened edges.
RECURSIVE merge(_, _, _, _)
merge(mr, p_cids, s_cids, n) ==
    IF n = 0 THEN EmptyDict
    ELSE update(merge(mr, p_cids, s_cids, n - 1), mr[p_cids[n]][s_cids[n]])

\* all_matches stopping at the first sentence chunk of each pattern chunk.
all_matches_first_only(sen, pat, mr) ==
    [i \in 1..Len(pat.cnks) |->
        LET dic == mr[pat.cnks[i].cid]
        IN  dic[keys_of(sen, dic)[1]]]

\* The single-chunk branch: every capture mapping of matching_res, the
\* dicts in the order in which they were filled.
all_matches(sen, pat, mr) ==
    Flatten([i \in 1..Len(pat.cnks) |->
               LET dic == mr[pat.cnks[i].cid]
                   ks  == keys_of(sen, dic)
               IN  [j \in 1..Len(ks) |-> dic[ks[j]]]])

\* match_tok with the combinations it kept:
\* [res |-> the return value, kept |-> the s_edges tuples, p_edges |-> ...].
match_tok_run(sen, pat) ==
    IF no_candidates(sen, pat)
    THEN [res |-> Absent, kept |-> <<>>, p_edges |-> <<>>]
    ELSE
      LET mr      == matching_res(sen, pat)
          entries == edge_entries(sen, pat, mr)
      IN  IF no_edge(entries)
          THEN [res |-> Absent, kept |-> <<>>, p_edges |-> <<>>]
          ELSE IF entries # <<>>
          THEN
            LET p_edges == [i \in 1..Len(entries) |-> entries[i].p_edge]
                lists   == [i \in 1..Len(entries) |-> entries[i].s_edges]
                kept    == accepted(p_edges, lists)
                p_cids  == Flatten(p_edges)
            IN  [res |-> Some([i \in 1..Len(kept) |->
                                 merge(mr, p_cids, Flatten(kept[i]), Len(p_cids))]),
                 kept |-> kept, p_edges |-> p_edges]
          ELSE [res |-> Some(all_matches(sen, pat, mr)), kept |-> <<>>, p_edges |-> <<>>]

match_tok(sen, pat) == match_tok_run(sen, pat).res

\* _tolist turning an empty list of records into None.
tolist_empty_is_None(matchedtoks) ==
    IF ~matchedtoks.present \/ matchedtoks.val = <<>> THEN Absent
    ELSE Some([i \in 1..Len(matchedtoks.val) |->
                 LET dic == matchedtoks.val[i]
                     ks  == Ascending(DOMAIN dic)
                 IN  [j \in 1..Len(ks) |-> dic[ks[j]]]])

\* _tolist: each record as the list of its values, by ascending key.
tolist(matchedtoks) ==
    IF ~matchedtoks.present THEN Absent
    ELSE Some([i \in 1..Len(matchedtoks.val) |->
                 LET dic == matchedtoks.val[i]
                     ks  == Ascending(DOMAIN dic)
                 IN  [j \in 1..Len(ks) |-> dic[ks[j]]]])

match(sen, pat) == tolist(match_tok(sen, pat))

(***************************************************************************)
(* Inputs                                                                  *)
(***************************************************************************)
\* most tokens in a sentence chunk handed to _match_chunk
MaxSLen == 3
\* most tokens in a pattern chunk handed to _match_chunk
MaxPLen == 3
\* most chunks in a sentence handed to match
MaxSCnks == 3
\* most chunks in a pattern handed to match
MaxPCnks == 3

\* A token line 'surface\tf1,f2,...' after the two splits.
Line(surface, feature) == [surface |-> surface, feature |-> feature]

\* A feature list as the parser prints it, and the same list as a pattern
\* author may shorten it: without its trailing '*' fields.
RECURSIVE Shorten(_)
Shorten(feature) ==
    IF Len(feature) > 1 /\ feature[Len(feature)] = <<Star>>
    THEN Shorten(SubSeq(feature, 1, Len(feature) - 1))
    ELSE feature

Features(p, d1, d2, dict) ==
    Shorten(<<p, d1, d2, <<Star>>, <<Star>>, <<Star>>, dict, <<Star>>, <<Star>>>>)

EqSurfaces == {<<>>, <<"seishun">>, <<"suru">>}
EqPos      == {<<"meishi">>, <<"doushi">>, <<"meishi", Star>>}
EqDetail1  == {<<Star>>, <<"ippan">>, <<"sahen">>}
EqDetail2  == {<<Star>>, <<"jiritsu">>}
EqDict     == {<<Star>>, <<"suru">>}

EqLines ==
    {Line(sf, Features(p, d1, d2, dc)) :
        sf \in EqSurfaces, p \in EqPos, d1 \in EqDetail1,
        d2 \in EqDetail2, dc \in EqDict}

\* Sentence token lines: a noun, a particle, a verb.
SLines ==
    {Line(<<"seishun">>, <<<<"meishi">>, <<"ippan">>>>),
     Line(<<"wa">>, <<<<"joshi">>, <<"kakarijoshi">>>>),
     Line(<<"shi">>, Features(<<"doushi">>, <<"jiritsu">>, <<Star>>, <<"suru">>))}

\* Pattern token lines: '\t名詞*', '\t動詞*', 'は\t助詞', '青春\t名詞',
\* '青春\t名詞*' and '\t名詞'.
PLines ==
    {Line(<<>>, <<<<"meishi", Star>>>>),
     Line(<<>>, <<<<"doushi", Star>>>>),
     Line(<<"wa">>, <<<<"joshi">>>>),
     Line(<<"seishun">>, <<<<"meishi">>>>),
     Line(<<"seishun">>, <<<<"meishi", Star>>>>),
     Line(<<>>, <<<<"meishi">>>>)}

\* A chunk header line '* cid linkD'.
Hdr(cid, link) == <<Star, cid, <<link, "D">>>>

\* The chunk of the given token lines, alone in its sentence.
LoneChunk(lines) ==
    Chunk(Hdr(0, ROOT), lines, [i \in 1..Len(lines) |-> i - 1])

SeqsUpTo(S, n) == UNION {[1..k -> S] : k \in 0..n}

\* "青春ラブコメは" and "[*/名詞]は"
LoveComedy ==
    LoneChunk(<<Line(<<"seishun">>, <<<<"meishi">>, <<"ippan">>>>),
                Line(<<"rabu">>, <<<<"meishi">>, <<"ippan">>>>),
                Line(<<"kome">>, <<<<"meishi">>, <<"ippan">>>>),
                Line(<<"wa">>, <<<<"joshi">>, <<"kakarijoshi">>>>)>>)
NounWa ==
    LoneChunk(<<Line(<<>>, <<<<"meishi", Star>>>>),
                Line(<<"wa">>, <<<<"joshi">>>>)>>)

\* Values of the variables a specification does not use.
IdleTok == Token(Line(<<"wa">>, <<<<"joshi">>>>), 0)
IdleCnk == LoneChunk(<<>>)
IdleSen == Sentence(<<>>)

IdleEq    == tokA = IdleTok /\ tokB = IdleTok /\ eqres = FALSE
IdleChunk == scnk = IdleCnk /\ pcnk = IdleCnk /\ mres = Absent
IdleMatch == /\ sentence = IdleSen /\ pattern = IdleSen
             /\ toks_res = Absent /\ combos = <<>> /\ list_res = Absent

(***************************************************************************)
(* Token equality: stok == ptok                                            *)
(***************************************************************************)
InitEq ==
    /\ pc = "eq_start"
    /\ \E a \in EqLines, b \in EqLines :
          /\ tokA = Token(a, 0)
          /\ tokB = Token(b, 0)
    /\ eqres = FALSE
    /\ IdleChunk /\ IdleMatch

Eq ==
    /\ pc = "eq_start"
    /\ pc' = "eq_done"
    /\ eqres' = TokenEq(tokB, tokA)
    /\ UNCHANGED <<tokA, tokB, scnk, pcnk, mres,
                   sentence, pattern, toks_res, combos, list_res>>

NextEq == Eq
SpecEq == InitEq /\ [][NextEq]_vars

(***************************************************************************)
(* Intra-chunk matching: _match_chunk(scnk, pcnk)                          *)
(***************************************************************************)
InitChunk ==
    /\ pc = "chunk_start"
    /\ \/ \E sl \in SeqsUpTo(SLines, MaxSLen), pl \in SeqsUpTo(PLines, MaxPLen) :
             /\ scnk = LoneChunk(sl)
             /\ pcnk = LoneChunk(pl)
       \/ scnk = LoveComedy /\ pcnk = NounWa
    /\ mres = Absent
    /\ IdleEq /\ IdleMatch

MatchChunk ==
    /\ pc = "chunk_start"
    /\ pc' = "chunk_done"
    /\ mres' = match_chunk(scnk, pcnk)
    /\ UNCHANGED <<tokA, tokB, eqres, scnk, pcnk,
                   sentence, pattern, toks_res, combos, list_res>>

NextChunk == MatchChunk
SpecChunk == InitChunk /\ [][NextChunk]_vars

(***************************************************************************)
(* Properties of token equality                                            *)
(***************************************************************************)
\* The detailed part-of-speech slots of a and b do not contradict each other.
DetailCompatible(a, b) ==
    \A i \in 2..4 :
        a.feature[i] = None \/ b.feature[i] = None \/ a.feature[i] = b.feature[i]

\* C8 as stated: a wildcard pattern token (empty surface) with part-of-speech
\* P is equal to every sentence token whose part-of-speech is P, whatever the
\* sentence token's surface, dictionary form and other feature slots are.
C8_WildcardMatchesSamePos ==
    (pc = "eq_done" /\ tokA.surface = <<>> /\ tokA.feature[1] = tokB.feature[1])
        => eqres

\* C8 amended: a wildcard pattern token with part-of-speech P is equal to a
\* sentence token whose part-of-speech is P exactly when no detailed
\* part-of-speech slot is specified on both sides with different values,
\* whatever the sentence token's surface and dictionary form are.
C8_WildcardMatchesCompatiblePos ==
    (pc = "eq_done" /\ tokA.surface = <<>> /\ tokA.feature[1] = tokB.feature[1])
        => (eqres <=> DetailCompatible(tokA, tokB))

\* C8 witness: a wildcard equal to a token of another surface and dictionary
\* form, with a sub-classification the wildcard leaves open.
C8_Witness ==
    /\ pc = "eq_done" /\ eqres
    /\ tokA.surface = <<>> /\ tokB.surface = <<"seishun">>
    /\ tokB.feature[7] = <<"suru">> /\ tokA.feature[7] = None
    /\ tokA.feature[2] = None /\ tokB.feature[2] = <<"sahen">>

(***************************************************************************)
(* Properties of intra-chunk matching                                      *)
(***************************************************************************)
\* Number of tokens the mapping d holds for pattern token tid k.
CapLen(d, k) == IF k \in DOMAIN d THEN Len(d[k]) ELSE 0

\* tids of the slot tokens of a pattern chunk
SlotTids(p) == {p.toks[i].tid : i \in {j \in 1..Len(p.toks) : p.toks[j].is_slot}}

\* Every mapping some sequence of choices of match_token arrives at: the
\* recursion of match_token with both branches of the slot case followed.
RECURSIVE alignments(_, _, _, _, _)
alignments(s, p, si, pi, mode) ==
    LET t == termination(si, pi, mode, Len(s.toks), Len(p.toks))
    IN  IF t = "dict" THEN {EmptyDict}
        ELSE IF t = "None" THEN {}
        ELSE
          LET stok == s.toks[si + 1]
              ptok == p.toks[pi + 1]
          IN  IF ptok.is_slot /\ TokenEq(stok, ptok)
              THEN {record(d, ptok, stok) :
                      d \in alignments(s, p, si + 1, pi, RECORDING)
                            \cup alignments(s, p, si + 1, pi + 1, RECORDING)}
              ELSE IF ptok.is_slot
              THEN (IF slot_skip(mode) = "NORMAL"
                    THEN alignments(s, p, si, pi + 1, NORMAL)
                    ELSE {})
              ELSE IF TokenEq(stok, ptok)
              THEN alignments(s, p, si + 1, pi + 1, mode)
              ELSE {}

\* d captures at least as much as e at the first slot where they differ.
GreedyOver(p, d, e) ==
    \A k \in SlotTids(p) :
        (\A j \in SlotTids(p) : j < k => CapLen(d, j) = CapLen(e, j))
            => CapLen(d, k) >= CapLen(e, k)

Prefix(s, k) == [s EXCEPT !.toks = SubSeq(s.toks, 1, k)]

\* C2 as stated: a successful _match_chunk returns an entry for every slot
\* token of the pattern chunk, and every entry holds at least one token.
C2_EverySlotCaptures ==
    (pc = "chunk_done" /\ mres.present)
        => \A k \in SlotTids(pcnk) : CapLen(mres.val, k) >= 1

\* C3: the mapping _match_chunk returns is the greedy one among the
\* alignments the matcher accepts: the first slot's capture is the longest,
\* each later slot's the longest given the captures before it; and
\* "[*/名詞]は" on 青春 ラブ コメ は captures [青春, ラブ, コメ].
C3_GreedyThenShrink ==
    pc = "chunk_done" =>
        /\ mres.present <=> alignments(scnk, pcnk, 0, 0, INITIAL) # {}
        /\ mres.present =>
              /\ mres.val \in alignments(scnk, pcnk, 0, 0, INITIAL)
              /\ \A e \in alignments(scnk, pcnk, 0, 0, INITIAL) :
                    GreedyOver(pcnk, mres.val, e)
        /\ (scnk = LoveComedy /\ pcnk = NounWa) =>
              mres = Some([k \in {0} |-> SubSeq(LoveComedy.toks, 1, 3)])

\* C3 witness: a match chosen among several alignments, the first slot
\* holding more tokens than in another accepted alignment.
C3_Witness ==
    /\ pc = "chunk_done" /\ mres.present
    /\ \E e \in alignments(scnk, pcnk, 0, 0, INITIAL) :
          \E k \in SlotTids(pcnk) :
              /\ CapLen(mres.val, k) > CapLen(e, k)
              /\ CapLen(e, k) >= 1

\* C3 witness of the named example.
C3_WitnessLoveComedy ==
    pc = "chunk_done" /\ scnk = LoveComedy /\ pcnk = NounWa /\ mres.present

\* C9: if the pattern chunk matches a prefix of the sentence chunk's tokens,
\* it matches the whole sentence chunk too.
C9_TrailingTokensIgnored ==
    pc = "chunk_done" =>
        \A k \in 0..Len(scnk.toks) :
            match_chunk(Prefix(scnk, k), pcnk).present => mres.present

\* C9 witness: a match of a proper prefix, by a pattern with a slot and a
\* literal, and the whole chunk matched.
C9_Witness ==
    /\ pc = "chunk_done" /\ mres.present
    /\ \E k \in 0..(Len(scnk.toks) - 1) :
          match_chunk(Prefix(scnk, k), pcnk).present
    /\ SlotTids(pcnk) # {}
    /\ \E i \in 1..Len(pcnk.toks) : ~pcnk.toks[i].is_slot

\* C10: each capture is a run of consecutive tokens of the sentence chunk in
\* sentence order, and the captures of different slots lie apart, in the
\* order of their slots.
C10_CapturesAreOrderedSpans ==
    (pc = "chunk_done" /\ mres.present) =>
        /\ \A k \in DOMAIN mres.val :
              LET c == mres.val[k]
              IN  /\ k \in SlotTids(pcnk)
                  /\ Len(c) >= 1
                  /\ \A i \in 1..Len(c) :
                        /\ c[i].tid + 1 \in 1..Len(scnk.toks)
                        /\ c[i] = scnk.toks[c[i].tid + 1]
                  /\ \A i \in 1..(Len(c) - 1) : c[i + 1].tid = c[i].tid + 1
        /\ \A k1, k2 \in DOMAIN mres.val :
              k1 < k2 =>
                  mres.val[k1][Len(mres.val[k1])].tid < mres.val[k2][1].tid

\* C10 witness: two slots captured, one of them with two tokens.
C10_Witness ==
    /\ pc = "chunk_done" /\ mres.present
    /\ Cardinality(DOMAIN mres.val) >= 2
    /\ \E k \in DOMAIN mres.val : Len(mres.val[k]) >= 2

(***************************************************************************)
(* Inter-chunk matching: match_tok(sentence, pattern), match(...)          *)
(***************************************************************************)
\* Token lines of the sentence chunks '青春は', 'し' and of the pattern
\* chunks '[*/名詞]', '[*/動詞]'.
SChunkLines ==
    {<<Line(<<"seishun">>, <<<<"meishi">>, <<"ippan">>>>),
       Line(<<"wa">>, <<<<"joshi">>, <<"kakarijoshi">>>>)>>,
     <<Line(<<"shi">>, Features(<<"doushi">>, <<"jiritsu">>, <<Star>>, <<"suru">>))>>}
PChunkLines ==
    {<<Line(<<>>, <<<<"meishi", Star>>>>)>>,
     <<Line(<<>>, <<<<"doushi", Star>>>>)>>}

\* The link fields of a dependency tree of n chunks with ids 0..n-1 as the
\* parser prints it: every chunk depends on a later one, the last on none.
TreeLinks(n) ==
    {l \in [1..n -> (0..(n - 1)) \cup {ROOT}] :
        \A i \in 1..n : IF i = n THEN l[i] = ROOT ELSE l[i] >= i}

\* The link fields a hand-written pattern of n chunks with ids 0..n-1 may
\* carry: every chunk depends on a later one or on none, so a pattern may
\* have several roots.
ForestLinks(n) ==
    {l \in [1..n -> (0..(n - 1)) \cup {ROOT}] :
        \A i \in 1..n : l[i] = ROOT \/ l[i] >= i}

\* The sentences of at most n chunks with token lines from kinds and link
\* fields from links(k).  The text 'EOS' alone gives the sentence of no
\* chunks.
Sentences(kinds, n, links(_)) ==
    {Sentence([i \in 1..k |-> [hdr |-> Hdr(i - 1, l[i]), toks |-> c[i]]]) :
        <<k, c, l>> \in UNION {{k} \X [1..k -> kinds] \X links(k) : k \in 0..n}}

\* A sentence whose chunk ids are not 0, 1, 2: '青春は' (1) and '青春は' (8)
\* both depending on 'し' (9).  The set {1, 8} iterates as 8, 1.
ScatteredIds ==
    LET noun == <<Line(<<"seishun">>, <<<<"meishi">>, <<"ippan">>>>),
                  Line(<<"wa">>, <<<<"joshi">>, <<"kakarijoshi">>>>)>>
        verb == <<Line(<<"shi">>,
                       Features(<<"doushi">>, <<"jiritsu">>, <<Star>>, <<"suru">>))>>
    IN  Sentence(<<[hdr |-> Hdr(1, 9), toks |-> noun],
                   [hdr |-> Hdr(8, 9), toks |-> noun],
                   [hdr |-> Hdr(9, ROOT), toks |-> verb]>>)

InitMatch ==
    /\ pc = "match_start"
    /\ sentence \in Sentences(SChunkLines, MaxSCnks, TreeLinks) \cup {ScatteredIds}
    /\ pattern \in Sentences(PChunkLines, MaxPCnks, ForestLinks)
    /\ toks_res = Absent /\ combos = <<>> /\ list_res = Absent
    /\ IdleEq /\ IdleChunk

\* A call of match_tok alone.
MatchTok ==
    /\ pc = "match_start"
    /\ pc' = "match_tok_done"
    /\ \E run \in {match_tok_run(sentence, pattern)} :
          /\ toks_res' = run.res
          /\ combos' = run.kept
    /\ UNCHANGED <<tokA, tokB, eqres, scnk, pcnk, mres,
                   sentence, pattern, list_res>>

\* A call of match: match_tok, then _tolist.
Match ==
    /\ pc = "match_start"
    /\ pc' = "match_done"
    /\ \E run \in {match_tok_run(sentence, pattern)} :
          /\ toks_res' = run.res
          /\ combos' = run.kept
          /\ list_res' = tolist(run.res)
    /\ UNCHANGED <<tokA, tokB, eqres, scnk, pcnk, mres, sentence, pattern>>

NextMatch == MatchTok \/ Match
SpecMatch == InitMatch /\ [][NextMatch]_vars

(***************************************************************************)
(* Properties of inter-chunk matching                                      *)
(***************************************************************************)
MatchTokDone == pc \in {"match_tok_done", "match_done"}

\* Sentence chunk number j matches pattern chunk number i.
Matches(j, i) == match_chunk(sentence.cnks[j], pattern.cnks[i]).present

\* Position in sen of the chunk with that cid, 0 if there is none.
IndexOf(sen, cid) ==
    IF \E i \in 1..Len(sen.cnks) : sen.cnks[i].cid = cid
    THEN CHOOSE i \in 1..Len(sen.cnks) : sen.cnks[i].cid = cid
    ELSE 0

\* Positions of the pattern chunks that depend on another chunk: the
\* pattern's edges, in the order of the chunks.
EdgeChunks ==
    LET idx == {i \in 1..Len(pattern.cnks) : pattern.cnks[i].link # ROOT}
    IN  Ascending(idx)

\* The sentence edges <<s_cid, s_link>> that realize the pattern edge leaving
\* pattern chunk number i: a sentence chunk that matches it and links to a
\* chunk that matches the pattern chunk's target.
Realizers(i) ==
    LET q == IndexOf(pattern, pattern.cnks[i].link)
    IN  {<<sentence.cnks[j].cid, sentence.cnks[j].link>> :
            j \in {k \in 1..Len(sentence.cnks) :
                     /\ Matches(k, i)
                     /\ IndexOf(sentence, sentence.cnks[k].link) # 0
                     /\ Matches(IndexOf(sentence, sentence.cnks[k].link), q)}}

SomeChunkUnmatched ==
    \E i \in 1..Len(pattern.cnks) : \A j \in 1..Len(sentence.cnks) : ~Matches(j, i)

SomeEdgeUnrealized ==
    \E n \in 1..Len(EdgeChunks) : Realizers(EdgeChunks[n]) = {}

\* The combination c of sentence edges gives every pattern chunk id one
\* sentence chunk id.
OneChunkPerPatternChunk(c) ==
    LET p_cids == Flatten([n \in 1..Len(EdgeChunks) |->
                     <<pattern.cnks[EdgeChunks[n]].cid,
                       pattern.cnks[EdgeChunks[n]].link>>])
        s_cids == Flatten(c)
    IN  \A a, b \in 1..Len(p_cids) : p_cids[a] = p_cids[b] => s_cids[a] = s_cids[b]

\* The combination c has the same-node correspondence of the pattern edges.
SameNodeCorrespondence(c) ==
    \A a, b \in 1..Len(EdgeChunks) :
        LET pa == pattern.cnks[EdgeChunks[a]]
            pb == pattern.cnks[EdgeChunks[b]]
        IN  /\ (pa.cid = pb.cid) = (c[a][1] = c[b][1])
            /\ (pa.link = pb.link) = (c[a][2] = c[b][2])

\* Some choice of one realizing sentence edge per pattern edge passes the
\* same-node correspondence check.
SomeCombinationPasses ==
    \E c \in [1..Len(EdgeChunks) -> UNION {Realizers(EdgeChunks[n]) : n \in 1..Len(EdgeChunks)}] :
        /\ \A n \in 1..Len(EdgeChunks) : c[n] \in Realizers(EdgeChunks[n])
        /\ SameNodeCorrespondence(c)

\* C1 as stated: with at least one pattern edge, every record comes from a
\* combination of sentence edges in which each pattern chunk id has exactly
\* one sentence chunk id, also a chunk that starts one edge and ends another.
C1_ConsistentChunkAssignment ==
    (MatchTokDone /\ toks_res.present /\ EdgeChunks # <<>>) =>
        /\ Len(toks_res.val) = Len(combos)
        /\ \A n \in 1..Len(combos) : OneChunkPerPatternChunk(combos[n])

\* C4: with at least one pattern edge, every record realizes each pattern
\* edge (p, q) by a direct dependency: the chunk s chosen for p matches p,
\* the chunk chosen for q is s.link, and s.link matches q.
C4_EdgesAreDirectLinks ==
    (MatchTokDone /\ toks_res.present /\ EdgeChunks # <<>>) =>
        /\ Len(toks_res.val) = Len(combos)
        /\ \A n \in 1..Len(combos) :
              /\ Len(combos[n]) = Len(EdgeChunks)
              /\ \A e \in 1..Len(EdgeChunks) :
                    LET s == IndexOf(sentence, combos[n][e][1])
                        t == IndexOf(sentence, combos[n][e][2])
                        p == EdgeChunks[e]
                        q == IndexOf(pattern, pattern.cnks[p].link)
                    IN  /\ s # 0 /\ t # 0
                        /\ Matches(s, p)
                        /\ sentence.cnks[s].link = sentence.cnks[t].cid
                        /\ Matches(t, q)

\* C4 witness: a record for S1 -> S2 in a sentence S1 -> S2 -> S3 where S3
\* matches the target pattern chunk too.
C4_Witness ==
    /\ MatchTokDone /\ toks_res.present /\ EdgeChunks # <<>>
    /\ \E n \in 1..Len(combos) : \E e \in 1..Len(EdgeChunks) :
          LET t == IndexOf(sentence, combos[n][e][2])
              q == IndexOf(pattern, pattern.cnks[EdgeChunks[e]].link)
              u == IndexOf(sentence, sentence.cnks[t].link)
          IN  u # 0 /\ Matches(u, q)

\* C5: match_tok, and so match, returns None whenever some pattern chunk is
\* matched by no sentence chunk or some pattern edge has no realizing
\* sentence edge.
C5_NoneWithoutCandidates ==
    (MatchTokDone /\ (SomeChunkUnmatched \/ SomeEdgeUnrealized)) =>
        /\ toks_res = Absent
        /\ pc = "match_done" => list_res = Absent

\* C5 witness: every pattern chunk has a candidate, an edge has none, and
\* the result is None.
C5_Witness ==
    /\ MatchTokDone /\ ~SomeChunkUnmatched /\ SomeEdgeUnrealized
    /\ toks_res = Absent

\* C6: for a pattern of one chunk matched by exactly N >= 1 sentence chunks,
\* match_tok returns N records, one per matching chunk and equal to that
\* chunk's capture mapping, whatever the links are.
C6_SingleChunkPattern ==
    LET hit == {j \in 1..Len(sentence.cnks) : Matches(j, 1)}
    IN  (MatchTokDone /\ Len(pattern.cnks) = 1 /\ hit # {}) =>
            /\ toks_res.present
            /\ Len(toks_res.val) = Cardinality(hit)
            /\ {toks_res.val[n] : n \in 1..Len(toks_res.val)}
                 = {match_chunk(sentence.cnks[j], pattern.cnks[1]).val : j \in hit}
            /\ Cardinality({toks_res.val[n] : n \in 1..Len(toks_res.val)})
                 = Cardinality(hit)

\* C6 witness: three records for three matching chunks, one of which depends
\* on another and one of which is the root.
C6_Witness ==
    /\ MatchTokDone /\ Len(pattern.cnks) = 1
    /\ toks_res.present /\ Len(toks_res.val) >= 3
    /\ \E j \in 1..Len(sentence.cnks) :
          /\ Matches(j, 1) /\ sentence.cnks[j].link # ROOT
          /\ Matches(IndexOf(sentence, sentence.cnks[j].link), 1)

\* C7 as stated: a list returned by match always holds at least one record.
C7_ReturnedListNotEmpty ==
    (pc = "match_done" /\ list_res.present) => Len(list_res.val) >= 1

\* C7 amended: match returns None exactly when some pattern chunk has no
\* matching sentence chunk or some pattern edge has no realizing sentence
\* edge.  Otherwise it returns a list, and the list is empty in exactly two
\* cases: the pattern has no chunks, or the pattern has edges, every chunk
\* and edge has candidates, and no combination passes the same-node
\* correspondence check.
C7_NoneOrPossiblyEmptyList ==
    pc = "match_done" =>
        /\ ~list_res.present <=> (SomeChunkUnmatched \/ SomeEdgeUnrealized)
        /\ list_res.present =>
              (list_res.val = <<>> <=>
                    \/ pattern.cnks = <<>>
                    \/ EdgeChunks # <<>> /\ ~SomeCombinationPasses)

\* C7 witness: every pattern chunk and edge has candidates, no combination
\* passes, and match returns the empty list.
C7_Witness ==
    /\ pc = "match_done"
    /\ ~SomeChunkUnmatched /\ ~SomeEdgeUnrealized /\ EdgeChunks # <<>>
    /\ ~SomeCombinationPasses
    /\ list_res = Some(<<>>)

\* The other empty list: a pattern of no chunks against a sentence with
\* chunks.
C7_WitnessNoPatternChunks ==
    /\ pc = "match_done"
    /\ pattern.cnks = <<>> /\ sentence.cnks # <<>>
    /\ list_res = Some(<<>>)

====
